---- MODULE Spec2Model ----
(***************************************************************************)
(* Model of seccop.go (k8s-seccop): the secret copier.  Two informer        *)
(* contexts deliver events: the secrets context runs onAddSecret and        *)
(* onDelSecret, the namespaces context runs onAddNamespace and              *)
(* onDelNamespace.  onAddSecret ranges over nslist.m and calls secretCopy   *)
(* for each namespace, which issues Get and then Create or Update against   *)
(* the API server (the store).                                              *)
(***************************************************************************)
EXTENDS Integers, Sequences, FiniteSets, TLC

(***************************************************************************)
(* Names                                                                    *)
(***************************************************************************)
CopierLabel == "secret-copier"

OriginAnnotation == "secret-copier/origin"

LastAppliedAnnotation == "kubectl.kubernetes.io/last-applied-configuration"

\* Namespaces of the cluster: the namespace the source secrets live in and
\* one more.  The namespaces informer reports both, so a source's own
\* namespace is a target too.
Namespaces == {"default", "team-a"}

SecretName == "db-cred"

(***************************************************************************)
(* Bounds                                                                   *)
(***************************************************************************)
\* How many times a user writes a secret into the store.
MaxUserOps == 2

\* How many times the process is started again (appInit runs anew).
MaxRestarts == 1

(***************************************************************************)
(* Strings of bytes are sequences of one-character strings, so that         *)
(* fmt.Fprintf's concatenation is computed and not assumed.                 *)
(***************************************************************************)
Str_a == <<"a">>

Str_b == <<"b">>

Str_x == <<"x">>

Str_y == <<"y">>

\* The value  x";b="y  : bytes of a secret's value are arbitrary.
Str_inject == <<"x", "\"", ";", "b", "=", "\"", "y">>

EmptyMap == [k \in {} |-> <<>>]

\* A Go map with one entry, and with two entries.
Map1(k, v) == [x \in {k} |-> v]

Map2(k1, v1, k2, v2) == [x \in {k1, k2} |-> IF x = k1 THEN v1 ELSE v2]

\* Data payloads of the secrets of the replication model.
DataUserA == Map1(Str_a, Str_x)

DataUserB == Map1(Str_a, Str_y)

DataTwoKeys == Map2(Str_a, Str_x, Str_b, Str_y)

(***************************************************************************)
(* Go maps of annotations: a nil map and an empty map read alike, but a     *)
(* write to a nil map panics.                                               *)
(***************************************************************************)
NilAnnotations == [isNil |-> TRUE, m |-> [k \in {} |-> ""]]

Annotations(f) == [isNil |-> FALSE, m |-> f]

\* annotations[key] with the comma-ok form: whether the key is present.
HasAnnotation(ann, key) == key \in DOMAIN ann.m

\* delete(m, key): a no-op on a nil map and on a missing key.
MapDelete(ann, key) ==
    [isNil |-> ann.isNil, m |-> [k \in (DOMAIN ann.m) \ {key} |-> ann.m[k]]]

\* m[key] = value on a map that is not nil.
MapSet(ann, key, value) ==
    [isNil |-> FALSE,
     m |-> [k \in (DOMAIN ann.m) \cup {key} |-> IF k = key THEN value ELSE ann.m[k]]]

(***************************************************************************)
(* corev1.Secret: the fields the program reads or writes.                   *)
(***************************************************************************)
Secret(ns, labels, ann, data) ==
    [namespace |-> ns, name |-> SecretName, labels |-> labels,
     annotations |-> ann, data |-> data,
     resourceVersion |-> "1", selfLink |-> "/api/v1/secrets", uid |-> "uid-1"]

\* What a decoded API object looks like: an object without annotations
\* decodes to a nil map, never to an empty one.
Decode(obj) ==
    IF DOMAIN obj.annotations.m = {}
    THEN [obj EXCEPT !.annotations = NilAnnotations]
    ELSE [obj EXCEPT !.annotations.isNil = FALSE]

\* The API server assigns the identity fields of a stored object.
StoreAssign(obj) ==
    Decode([obj EXCEPT !.resourceVersion = "1",
                       !.selfLink = "/api/v1/secrets",
                       !.uid = "uid-1"])

NoSecret == [namespace |-> "", name |-> "", labels |-> {},
             annotations |-> NilAnnotations, data |-> EmptyMap,
             resourceVersion |-> "", selfLink |-> "", uid |-> ""]

\* The secrets a user writes.  Sources live in "default"; in another
\* namespace a user may hold a secret of the same name that is no replica.
SourcePlain == Secret("default", {CopierLabel}, NilAnnotations, DataUserA)

SourceAppliedA ==
    Secret("default", {CopierLabel},
           Annotations([k \in {LastAppliedAnnotation} |-> "cfg"]), DataUserA)

SourceTwoKeys ==
    Secret("default", {CopierLabel},
           Annotations([k \in {LastAppliedAnnotation} |-> "cfg"]), DataTwoKeys)

SourceMarked ==
    Secret("default", {CopierLabel},
           Annotations([k \in {OriginAnnotation} |-> "manual"]), DataUserA)

SourceUnlabelled ==
    Secret("default", {},
           Annotations([k \in {LastAppliedAnnotation} |-> "cfg"]), DataUserA)

Foreign(ns) == Secret(ns, {}, NilAnnotations, DataUserB)

UserSecrets(ns) ==
    IF ns = "default"
    THEN {SourcePlain, SourceAppliedA, SourceTwoKeys, SourceMarked,
          SourceUnlabelled}
    ELSE {Foreign(ns)}

(***************************************************************************)
(* keysToByte and secretsDataEqual                                          *)
(***************************************************************************)
\* The orders in which `for key, value := range data` may produce the keys
\* of a map: Go leaves the order unspecified and randomises it.
RangeOrders(data) ==
    {o \in [1..Cardinality(DOMAIN data) -> DOMAIN data] :
        \A i, j \in 1..Cardinality(DOMAIN data) : i # j => o[i] # o[j]}

\* fmt.Fprintf(b, "%s=\"%s\";", key, value) for each key in range order.
RECURSIVE keysToByte(_, _)
keysToByte(data, order) ==
    IF Len(order) = 0
    THEN <<>>
    ELSE Head(order) \o <<"=", "\"">> \o data[Head(order)] \o <<"\"", ";">>
         \o keysToByte(data, Tail(order))

\* hashKey is drawn once per process by appInit.
hashKey == "key"

\* hex.EncodeToString(highwayhash.New(hashKey) over the bytes): the keyed
\* hash is taken to be injective, so a checksum stands for its input.
Checksum(key, bytes) == [key |-> key, sum |-> bytes]

secretsDataEqual(one, two, orderOne, orderTwo) ==
    Checksum(hashKey, keysToByte(one.data, orderOne))
        = Checksum(hashKey, keysToByte(two.data, orderTwo))

(***************************************************************************)
(* State                                                                    *)
(***************************************************************************)
VARIABLES
    nslist,       \* nslist.m: the set of keys of the map
    secretlist,   \* secretlist.m: namespace -> set of names
    store,        \* the API server: namespace -> the secret SecretName or NoSecret
    known,        \* the secrets informer's cache: namespaces whose secret it holds
    pc,           \* where the secrets context is
    secret,       \* the object onAddSecret was handed (obj), as it is now
    observed,     \* that object as it was handed over
    obsNs,        \* nslist.m when onAddSecret was entered
    produced,     \* the keys the range has produced so far
    pending,      \* range nslist.m: keys present at its start, still to produce
    maybe,        \* range nslist.m: keys inserted since, produced or skipped
    target,       \* targetNamespace of the running secretCopy
    newSecret,    \* secretCopy's newSecret
    existSecret,  \* secretCopy's existSecret
    getErr,       \* secretCopy's err after Get
    calls,        \* the store calls of the current observation, in order
    handler,      \* the handler the secrets context is running
    userOps,
    restarts,
    fp,           \* a run of secretsDataEqual on its own
    nsAdded,      \* the namespaces whose latest event was an add
    hist,         \* what earlier steps did, when a specification records it
    nsPc,         \* where the namespaces context is inside a write of nslist.m
    regLast,      \* the latest call of secretListAdd or secretListDel on its own
    main          \* where main is, when a specification follows it

vars == <<nslist, secretlist, store, known, pc, secret, observed, obsNs,
          produced, pending, maybe, target, newSecret, existSecret, getErr, calls, handler,
          userOps, restarts, fp, nsAdded, hist, nsPc, regLast, main>>

\* The variables only the specifications of single parts change.
apart == <<fp, nsPc, regLast, main>>

locals == <<target, newSecret, existSecret, getErr>>

ghosts == <<observed, obsNs, produced>>

FpIdle == [pc |-> "idle", one |-> EmptyMap, two |-> EmptyMap,
           orderOne |-> <<>>, orderTwo |-> <<>>, res |-> FALSE]

(***************************************************************************)
(* The secret registry                                                      *)
(***************************************************************************)
EmptyRegistry == [ns \in {} |-> {}]

secretListAdd(m, ns, name) ==
    IF ns \in DOMAIN m
    THEN [m EXCEPT ![ns] = @ \cup {name}]
    ELSE [k \in (DOMAIN m) \cup {ns} |-> IF k = ns THEN {name} ELSE m[k]]

secretListDel_KeepsEmptySet(m, ns, name) ==
    IF ns \in DOMAIN m THEN [m EXCEPT ![ns] = @ \ {name}] ELSE m

\* delete(m[ns], name) on a missing ns deletes from a nil map: a no-op.
secretListDel(m, ns, name) ==
    LET mm == IF ns \in DOMAIN m THEN m[ns] \ {name} ELSE {}
    IN  IF Cardinality(mm) = 0
        THEN [k \in (DOMAIN m) \ {ns} |-> m[k]]
        ELSE [m EXCEPT ![ns] = mm]

(***************************************************************************)
(* secretCopy: the checks and the replica it builds                         *)
(***************************************************************************)
\* The label check left out: every secret is taken to carry the label.
HasCopierLabel_Unchecked(obj) == TRUE

\* _, ok := secret.GetLabels()[CopierLabel]
HasCopierLabel(obj) == CopierLabel \in obj.labels

\* The clone check left out: no secret is taken for a replica.
IsClone_Never(obj) == FALSE

\* The clone check made on the annotation's value instead of its presence.
IsClone_ValueOnly(obj) ==
    /\ HasAnnotation(obj.annotations, OriginAnnotation)
    /\ obj.annotations.m[OriginAnnotation] = "clone"

\* origin, ok := annotations["secret-copier/origin"]; ok
IsClone(obj) == HasAnnotation(obj.annotations, OriginAnnotation)

\* newAnnotations is secret's own map (GetAnnotations returns the map, not a
\* copy): deleting from it and writing to it changes the map of the object
\* that was handed in.  This is that map after lines 705-711.
newAnnotations(obj) ==
    MapSet(MapDelete(obj.annotations, LastAppliedAnnotation),
           OriginAnnotation, "clone")

\* Line 711 writes to newAnnotations: a nil map panics there.
CopyPanics(obj) == obj.annotations.isNil

\* The replica with SetUID("") left out.
BuildReplica_KeepsUID(obj, targetNamespace) ==
    [obj EXCEPT !.namespace = targetNamespace,
                !.resourceVersion = "",
                !.selfLink = "",
                !.annotations = newAnnotations(obj)]

\* newSecret after lines 698-712.
BuildReplica(obj, targetNamespace) ==
    [obj EXCEPT !.namespace = targetNamespace,
                !.resourceVersion = "",
                !.selfLink = "",
                !.uid = "",
                !.annotations = newAnnotations(obj)]

\* A store call of the current handler: for Get, obj is the object returned;
\* for Create and Update, the object passed.
Call(op, ns, obj, res) == [op |-> op, ns |-> ns, obj |-> obj, res |-> res]

\* What clientSecret.Get may return for a namespace.
GetResults(ns) ==
    (IF store[ns] = NoSecret THEN {"NotFound"} ELSE {"nil"}) \cup {"Error"}

\* The object Get returns along with its error: an empty one on an error.
GetObject(ns, res) == IF res = "nil" THEN Decode(store[ns]) ELSE NoSecret

CreateResults(ns) ==
    (IF store[ns] = NoSecret THEN {"nil"} ELSE {"AlreadyExists"}) \cup {"Error"}

UpdateResults(ns) ==
    (IF store[ns] = NoSecret THEN {"NotFound"} ELSE {"nil"}) \cup {"Error"}

(***************************************************************************)
(* Initial state: appInit has made both maps, the store is empty            *)
(***************************************************************************)
\* The namespaces context is not inside a write of nslist.m.
NsIdle == [op |-> "none", name |-> ""]

\* Nothing is recorded of earlier steps.
HistOff == [on |-> FALSE, src |-> NoSecret, failed |-> {}, eligible |-> {},
            seen |-> {}, counting |-> FALSE, sources |-> {}, creates |-> 0]

HistOn == [HistOff EXCEPT !.on = TRUE]

RegNone == [op |-> "none", ns |-> "", name |-> "", had |-> FALSE]

\* main has passed the secrets barrier and sits in its first `<-stopper`
\* (line 541) while the handlers run.
MainWaiting == [pc |-> "recv1", checked |-> {"secrets"}, synced |-> {"secrets"},
                running |-> {"secrets", "namespaces"}]

\* The process has started: both maps are empty, no handler runs.
ProcessInit ==
    /\ nslist = {}
    /\ nsAdded = {}
    /\ secretlist = EmptyRegistry
    /\ known = {}
    /\ pc = "idle"
    /\ secret = NoSecret
    /\ observed = NoSecret
    /\ obsNs = {}
    /\ produced = {}
    /\ pending = {}
    /\ maybe = {}
    /\ target = ""
    /\ newSecret = NoSecret
    /\ existSecret = NoSecret
    /\ getErr = "nil"
    /\ calls = <<>>
    /\ handler = "none"
    /\ userOps = 0
    /\ restarts = 0

EngineInit ==
    /\ ProcessInit
    /\ store = [ns \in Namespaces |-> NoSecret]

ApartInit ==
    /\ fp = FpIdle
    /\ nsPc = NsIdle
    /\ regLast = RegNone
    /\ main = MainWaiting

Init ==
    /\ EngineInit
    /\ ApartInit
    /\ hist = HistOff

(***************************************************************************)
(* What a specification may record of earlier steps                         *)
(***************************************************************************)
Labelled(obj) == CopierLabel \in obj.labels

Annotated(obj) == OriginAnnotation \in DOMAIN obj.annotations.m

\* A secret is eligible when it carries the label and not the annotation.
Eligible(obj) == Labelled(obj) /\ ~Annotated(obj)

\* An Added event for the secret obj of namespace ns, with nslist.m = regs.
HistAdded(ns, obj, regs) ==
    IF ~hist.on THEN hist
    ELSE [hist EXCEPT !.eligible = IF Eligible(obj) THEN @ \cup {ns} ELSE @ \ {ns},
                      !.seen = {regs},
                      !.src = obj,
                      !.failed = IF obj = hist.src THEN @ ELSE {}]

\* A Deleted event for the secret of namespace ns.
HistDeleted(ns) ==
    IF ~hist.on THEN hist ELSE [hist EXCEPT !.eligible = @ \ {ns}]

\* nslist.m has become regs; it counts when onAddSecret is under way.
HistNsWrite(regs) ==
    IF hist.on /\ handler = "onAddSecret" /\ pc # "return"
    THEN [hist EXCEPT !.seen = @ \cup {regs}]
    ELSE hist

\* secretCopy is done with namespace ns; its Create or Update failed or not.
HistCopied(ns, failed) ==
    IF ~hist.on THEN hist
    ELSE [hist EXCEPT !.failed = IF failed THEN @ \cup {ns} ELSE @ \ {ns}]

\* One more Create call, when Create calls are counted.
HistCreate(h) ==
    IF h.counting THEN [h EXCEPT !.creates = @ + 1] ELSE h

HistReturn ==
    IF ~hist.on THEN hist ELSE [hist EXCEPT !.seen = {}]

HistRestart ==
    IF ~hist.on THEN hist ELSE [hist EXCEPT !.seen = {}, !.eligible = {}]

(***************************************************************************)
(* The namespaces context                                                   *)
(***************************************************************************)
\* onAddSecret is inside its `for namespace := range nslist.m`.
Ranging == pc \in {"range", "copy", "got"}

\* nslist.m[name] = 1 on the set of keys.
KeysInsert(m, name) == m \cup {name}

KeysDelete_KeepsKey(m, name) == m

\* delete(nslist.m, name) on the set of keys.
KeysDelete(m, name) == m \ {name}

\* What onAddNamespace does to the engine.  A key inserted while onAddSecret
\* ranges over the map may be produced by the range or skipped.
AddNamespaceEffect(name) ==
    /\ pc # "panicked"
    /\ nslist' = KeysInsert(nslist, name)
    /\ nsAdded' = nsAdded \cup {name}
    /\ maybe' = IF Ranging /\ name \notin nslist THEN maybe \cup {name} ELSE maybe
    /\ hist' = HistNsWrite(KeysInsert(nslist, name))
    /\ UNCHANGED <<secretlist, store, known, pc, secret, pending, locals, calls,
                   handler, ghosts, userOps, restarts>>

DelNamespaceEffect_ForgetsSecrets(name) ==
    /\ pc # "panicked"
    /\ nslist' = KeysDelete(nslist, name)
    /\ nsAdded' = nsAdded \ {name}
    /\ pending' = pending \ {name}
    /\ maybe' = maybe \ {name}
    /\ hist' = HistNsWrite(KeysDelete(nslist, name))
    /\ secretlist' = [ns \in DOMAIN secretlist \ {name} |-> secretlist[ns]]
    /\ UNCHANGED <<store, known, pc, secret, locals, calls,
                   handler, ghosts, userOps, restarts>>

\* What onDelNamespace does to the engine.  A key removed before the range
\* reaches it is not produced.
DelNamespaceEffect(name) ==
    /\ pc # "panicked"
    /\ nslist' = KeysDelete(nslist, name)
    /\ nsAdded' = nsAdded \ {name}
    /\ pending' = pending \ {name}
    /\ maybe' = maybe \ {name}
    /\ hist' = HistNsWrite(KeysDelete(nslist, name))
    /\ UNCHANGED <<secretlist, store, known, pc, secret, locals, calls,
                   handler, ghosts, userOps, restarts>>

\* Lines 569-575, taken as one step.
onAddNamespace(name) ==
    /\ AddNamespaceEffect(name)
    /\ UNCHANGED apart

\* Lines 585-593, taken as one step.
onDelNamespace(name) ==
    /\ DelNamespaceEffect(name)
    /\ UNCHANGED apart

(***************************************************************************)
(* The secrets context                                                      *)
(***************************************************************************)
\* The informer hands over the secret of a namespace it did not hold yet.
\* Lines 550-562: the label check, secretListAdd, the start of the range.
onAddSecret(ns) ==
    /\ pc = "idle"
    /\ ns \notin known
    /\ store[ns] # NoSecret
    /\ known' = known \cup {ns}
    /\ handler' = "onAddSecret"
    /\ secret' = Decode(store[ns])
    /\ observed' = Decode(store[ns])
    /\ obsNs' = nslist
    /\ produced' = {}
    /\ calls' = <<>>
    /\ hist' = HistAdded(ns, Decode(store[ns]), nslist)
    /\ IF HasCopierLabel(Decode(store[ns]))
       THEN /\ secretlist' = secretListAdd(secretlist, ns, SecretName)
            /\ pending' = nslist
            /\ maybe' = {}
            /\ pc' = "range"
       ELSE /\ pc' = "return"
            /\ UNCHANGED <<secretlist, pending, maybe>>
    /\ UNCHANGED <<nslist, store, locals, userOps, restarts, nsAdded, apart>>

\* for namespace := range nslist.m: the next key.
RangeNext ==
    /\ pc = "range"
    /\ \E n \in pending \cup maybe :
        /\ target' = n
        /\ pending' = pending \ {n}
        /\ maybe' = maybe \ {n}
        /\ produced' = produced \cup {n}
    /\ pc' = "copy"
    /\ UNCHANGED <<nslist, secretlist, store, known, secret, newSecret, existSecret,
                   getErr, calls, handler, observed, obsNs, userOps, restarts, nsAdded, hist, apart>>

\* The range is over: onAddSecret is about to return.
RangeEnd ==
    /\ pc = "range"
    /\ pending = {}
    /\ pc' = "return"
    /\ maybe' = {}
    /\ UNCHANGED <<nslist, secretlist, store, known, secret, pending, locals, calls,
                   handler, ghosts, userOps, restarts, nsAdded, hist, apart>>

\* The handler returns to the informer; its locals and its argument are gone.
Return ==
    /\ pc = "return"
    /\ pc' = "idle"
    /\ handler' = "none"
    /\ secret' = NoSecret
    /\ observed' = NoSecret
    /\ obsNs' = {}
    /\ produced' = {}
    /\ target' = ""
    /\ newSecret' = NoSecret
    /\ existSecret' = NoSecret
    /\ getErr' = "nil"
    /\ calls' = <<>>
    /\ hist' = HistReturn
    /\ UNCHANGED <<nslist, secretlist, store, known, pending, maybe, userOps,
                   restarts, nsAdded, apart>>

\* secretCopy, lines 679-719: the clone check, the replica, the Get.
SecretCopyGet ==
    /\ pc = "copy"
    /\ IF IsClone(secret)
       THEN /\ pc' = "range"
            /\ UNCHANGED <<secret, newSecret, existSecret, getErr, calls>>
       ELSE IF CopyPanics(secret)
       THEN /\ pc' = "panicked"
            /\ UNCHANGED <<secret, newSecret, existSecret, getErr, calls>>
       ELSE /\ secret' = [secret EXCEPT !.annotations = newAnnotations(secret)]
            /\ newSecret' = BuildReplica(secret, target)
            /\ \E res \in GetResults(target) :
                /\ getErr' = res
                /\ existSecret' = GetObject(target, res)
                /\ calls' = Append(calls, Call("Get", target, GetObject(target, res), res))
            /\ pc' = "got"
    /\ UNCHANGED <<nslist, secretlist, store, known, pending, maybe, target,
                   handler, ghosts, userOps, restarts, nsAdded, hist, apart>>

\* secretCopy, lines 720-746: Create when Get returned an error, else the
\* comparison and the Update.
SecretCopyWrite ==
    /\ pc = "got"
    /\ IF getErr # "nil"
       THEN \E res \in CreateResults(target) :
                /\ calls' = Append(calls, Call("Create", target, newSecret, res))
                /\ hist' = HistCreate(HistCopied(target, res # "nil"))
                /\ store' = IF res = "nil"
                            THEN [store EXCEPT ![target] = StoreAssign(newSecret)]
                            ELSE store
       ELSE \E orderOne \in RangeOrders(newSecret.data),
               orderTwo \in RangeOrders(existSecret.data) :
                IF secretsDataEqual(newSecret, existSecret, orderOne, orderTwo)
                THEN /\ hist' = HistCopied(target, FALSE)
                     /\ UNCHANGED <<calls, store>>
                ELSE \E res \in UpdateResults(target) :
                        /\ calls' = Append(calls, Call("Update", target, newSecret, res))
                        /\ hist' = HistCopied(target, res # "nil")
                        /\ store' = IF res = "nil"
                                    THEN [store EXCEPT ![target] = StoreAssign(newSecret)]
                                    ELSE store
    /\ pc' = "range"
    /\ UNCHANGED <<nslist, secretlist, known, secret, pending, maybe, locals,
                   handler, ghosts, userOps, restarts, nsAdded, apart>>

\* The informer reports a secret it held as deleted.  Lines 577-583.
onDelSecret(ns) ==
    /\ pc = "idle"
    /\ ns \in known
    /\ store[ns] = NoSecret
    /\ known' = known \ {ns}
    /\ handler' = "onDelSecret"
    /\ calls' = <<>>
    /\ hist' = HistDeleted(ns)
    /\ secretlist' = secretListDel(secretlist, ns, SecretName)
    /\ pc' = "return"
    /\ UNCHANGED <<nslist, store, secret, ghosts, pending, maybe, locals,
                   userOps, restarts, nsAdded, apart>>

(***************************************************************************)
(* The environment: users of the cluster, and the process starting anew     *)
(***************************************************************************)
UserPut(ns, obj) ==
    /\ userOps < MaxUserOps
    /\ userOps' = userOps + 1
    /\ store' = [store EXCEPT ![ns] = StoreAssign(obj)]
    /\ UNCHANGED <<nslist, secretlist, known, pc, secret, pending, maybe, locals,
                   calls, handler, ghosts, restarts, nsAdded, hist, apart>>

UserDelete(ns) ==
    /\ userOps < MaxUserOps
    /\ store[ns] # NoSecret
    /\ userOps' = userOps + 1
    /\ store' = [store EXCEPT ![ns] = NoSecret]
    /\ UNCHANGED <<nslist, secretlist, known, pc, secret, pending, maybe, locals,
                   calls, handler, ghosts, restarts, nsAdded, hist, apart>>

\* The process ends (a panic ends it) and main runs again: appInit makes new
\* maps and the informers list everything anew.
Restart ==
    /\ restarts < MaxRestarts
    /\ restarts' = restarts + 1
    /\ nslist' = {}
    /\ nsAdded' = {}
    /\ hist' = HistRestart
    /\ secretlist' = EmptyRegistry
    /\ known' = {}
    /\ pc' = "idle"
    /\ handler' = "none"
    /\ secret' = NoSecret
    /\ observed' = NoSecret
    /\ obsNs' = {}
    /\ produced' = {}
    /\ target' = ""
    /\ newSecret' = NoSecret
    /\ existSecret' = NoSecret
    /\ getErr' = "nil"
    /\ calls' = <<>>
    /\ pending' = {}
    /\ maybe' = {}
    /\ UNCHANGED <<store, userOps, apart>>

Next ==
    \/ \E name \in Namespaces : onAddNamespace(name)
    \/ \E name \in Namespaces : onDelNamespace(name)
    \/ \E ns \in Namespaces : onAddSecret(ns)
    \/ RangeNext
    \/ RangeEnd
    \/ Return
    \/ SecretCopyGet
    \/ SecretCopyWrite
    \/ \E ns \in Namespaces : onDelSecret(ns)
    \/ \E ns \in Namespaces : \E obj \in UserSecrets(ns) : UserPut(ns, obj)
    \/ \E ns \in Namespaces : UserDelete(ns)
    \/ Restart

Spec == Init /\ [][Next]_vars

(***************************************************************************)
(* secretsDataEqual on its own: every pair of small payloads, every pair    *)
(* of range orders                                                          *)
(***************************************************************************)
FpKeys == {Str_a, Str_b}

FpValues == {Str_x, Str_y, Str_inject}

FpPayloads == UNION {[K -> FpValues] : K \in SUBSET FpKeys}

InitFP ==
    /\ EngineInit
    /\ hist = HistOff
    /\ nsPc = NsIdle
    /\ regLast = RegNone
    /\ main = MainWaiting
    /\ fp \in {[pc |-> "call", one |-> A, two |-> B, orderOne |-> <<>>,
                orderTwo |-> <<>>, res |-> FALSE] : A \in FpPayloads, B \in FpPayloads}

FpSecretsDataEqual ==
    /\ fp.pc = "call"
    /\ \E orderOne \in RangeOrders(fp.one), orderTwo \in RangeOrders(fp.two) :
        fp' = [fp EXCEPT !.pc = "done",
                         !.orderOne = orderOne,
                         !.orderTwo = orderTwo,
                         !.res = secretsDataEqual([data |-> fp.one], [data |-> fp.two],
                                                  orderOne, orderTwo)]
    /\ UNCHANGED <<nslist, secretlist, store, known, pc, secret, pending, maybe,
                   locals, calls, handler, ghosts, userOps, restarts, nsAdded, hist,
                   nsPc, regLast, main>>

NextFP == FpSecretsDataEqual

SpecFP == InitFP /\ [][NextFP]_vars

(***************************************************************************)
(* The two contexts step by step: a write of nslist.m takes time            *)
(***************************************************************************)
\* The cluster holds a labelled secret in default when the process starts.
StoreLoaded ==
    [ns \in Namespaces |->
        IF ns = "default" THEN StoreAssign(SourceAppliedA) ELSE NoSecret]

InitRace ==
    /\ ProcessInit
    /\ store = StoreLoaded
    /\ ApartInit
    /\ hist = HistOff

\* onAddNamespace is entered and starts nslist.m[name] = 1 (line 573); it
\* holds no lock.
onAddNamespaceEnter(name) ==
    /\ pc # "panicked"
    /\ nsPc = NsIdle
    /\ nsPc' = [op |-> "add", name |-> name]
    /\ UNCHANGED <<nslist, secretlist, store, known, pc, secret, pending, maybe,
                   locals, calls, handler, ghosts, userOps, restarts, nsAdded, hist,
                   fp, regLast, main>>

\* onDelNamespace is entered, takes nslist.RLock() (line 588), which excludes
\* nobody since no code takes nslist.Lock(), and starts delete(nslist.m, name).
onDelNamespaceEnter(name) ==
    /\ pc # "panicked"
    /\ nsPc = NsIdle
    /\ nsPc' = [op |-> "del", name |-> name]
    /\ UNCHANGED <<nslist, secretlist, store, known, pc, secret, pending, maybe,
                   locals, calls, handler, ghosts, userOps, restarts, nsAdded, hist,
                   fp, regLast, main>>

\* The write of the namespaces context is done and the handler returns.
NamespaceWriteDone ==
    /\ nsPc # NsIdle
    /\ IF nsPc.op = "add"
       THEN AddNamespaceEffect(nsPc.name)
       ELSE DelNamespaceEffect(nsPc.name)
    /\ nsPc' = NsIdle
    /\ UNCHANGED <<fp, regLast, main>>

\* The range of onAddSecret asks for its next key while the map is being
\* written: the runtime may stop the process (concurrent map iteration and
\* map write).  It may also not notice: then RangeNext or RangeEnd is taken.
RangeThrow ==
    /\ pc = "range"
    /\ nsPc # NsIdle
    /\ pc' = "panicked"
    /\ UNCHANGED <<nslist, secretlist, store, known, secret, pending, maybe,
                   locals, calls, handler, ghosts, userOps, restarts, nsAdded, hist,
                   apart>>

NextRace ==
    \/ \E name \in Namespaces : onAddNamespaceEnter(name)
    \/ \E name \in Namespaces : onDelNamespaceEnter(name)
    \/ NamespaceWriteDone
    \/ \E ns \in Namespaces : onAddSecret(ns)
    \/ RangeNext
    \/ RangeThrow
    \/ RangeEnd
    \/ Return
    \/ SecretCopyGet
    \/ SecretCopyWrite

SpecRace == InitRace /\ [][NextRace]_vars

(***************************************************************************)
(* secretListAdd and secretListDel on their own                             *)
(***************************************************************************)
RegNames == {SecretName, "tls-cert", "api-key"}

\* m[ns][name] is there.
RegHas(m, ns, name) == ns \in DOMAIN m /\ name \in m[ns]

InitReg ==
    /\ EngineInit
    /\ ApartInit
    /\ hist = HistOff

SecretListAddCall(ns, name) ==
    /\ secretlist' = secretListAdd(secretlist, ns, name)
    /\ regLast' = [op |-> "add", ns |-> ns, name |-> name,
                   had |-> RegHas(secretlist, ns, name)]
    /\ UNCHANGED <<nslist, store, known, pc, secret, pending, maybe, locals, calls,
                   handler, ghosts, userOps, restarts, nsAdded, hist, fp, nsPc, main>>

SecretListDelCall(ns, name) ==
    /\ secretlist' = secretListDel(secretlist, ns, name)
    /\ regLast' = [op |-> "del", ns |-> ns, name |-> name,
                   had |-> RegHas(secretlist, ns, name)]
    /\ UNCHANGED <<nslist, store, known, pc, secret, pending, maybe, locals, calls,
                   handler, ghosts, userOps, restarts, nsAdded, hist, fp, nsPc, main>>

NextReg ==
    \/ \E ns \in Namespaces, name \in RegNames : SecretListAddCall(ns, name)
    \/ \E ns \in Namespaces, name \in RegNames : SecretListDelCall(ns, name)

SpecReg == InitReg /\ [][NextReg]_vars

(***************************************************************************)
(* The engine with a record of earlier events                               *)
(***************************************************************************)
InitHist ==
    /\ EngineInit
    /\ ApartInit
    /\ hist = HistOn

SpecHist == InitHist /\ [][Next]_vars

(***************************************************************************)
(* main from its start: the informers, the two barriers, the waits          *)
(***************************************************************************)
MainStart == [pc |-> "start", checked |-> {}, synced |-> {}, running |-> {}]

\* stopper is closed only by `defer close(stopper)` when main returns, and
\* nothing is ever sent on it.
StopperClosed == main.pc = "exit"

InitMain ==
    /\ ProcessInit
    /\ store = StoreLoaded
    /\ fp = FpIdle
    /\ nsPc = NsIdle
    /\ regLast = RegNone
    /\ main = MainStart
    /\ hist = HistOff

\* A step of main.  start: lines 462-519, `go informerSecrets.Run`;
\* runNamespaces: lines 522-534, `go informerNamespaces.Run`; waitSecrets:
\* line 537; recv1: line 541; waitNamespaces: line 543; recv2: line 547.
\* WaitForCacheSync returns true once the informer has synced and false when
\* stopper is closed before that; `<-stopper` goes on only when stopper is
\* closed.
MainStep ==
    /\ main' =
        IF main.pc = "start"
        THEN [main EXCEPT !.pc = "runNamespaces", !.running = @ \cup {"secrets"}]
        ELSE IF main.pc = "runNamespaces"
        THEN [main EXCEPT !.pc = "waitSecrets", !.running = @ \cup {"namespaces"}]
        ELSE IF main.pc = "waitSecrets" /\ "secrets" \in main.synced
        THEN [main EXCEPT !.pc = "recv1", !.checked = @ \cup {"secrets"}]
        ELSE IF main.pc = "waitSecrets" /\ StopperClosed
        THEN [main EXCEPT !.pc = "exit"]
        ELSE IF main.pc = "recv1" /\ StopperClosed
        THEN [main EXCEPT !.pc = "waitNamespaces"]
        ELSE IF main.pc = "waitNamespaces" /\ "namespaces" \in main.synced
        THEN [main EXCEPT !.pc = "recv2", !.checked = @ \cup {"namespaces"}]
        ELSE IF main.pc = "waitNamespaces" /\ StopperClosed
        THEN [main EXCEPT !.pc = "exit"]
        ELSE IF main.pc = "recv2" /\ StopperClosed
        THEN [main EXCEPT !.pc = "exit"]
        ELSE main
    /\ main' # main
    /\ UNCHANGED <<nslist, secretlist, store, known, pc, secret, pending, maybe,
                   locals, calls, handler, ghosts, userOps, restarts, nsAdded, hist,
                   fp, nsPc, regLast>>

\* An informer that runs has handed over everything it listed: its HasSynced
\* turns true.
InformerSynced(informer) ==
    /\ informer \in main.running
    /\ informer \notin main.synced
    /\ main' = [main EXCEPT !.synced = @ \cup {informer}]
    /\ UNCHANGED <<nslist, secretlist, store, known, pc, secret, pending, maybe,
                   locals, calls, handler, ghosts, userOps, restarts, nsAdded, hist,
                   fp, nsPc, regLast>>

\* The handlers of an informer run once main has started it.
NextMain ==
    \/ MainStep
    \/ \E informer \in {"secrets", "namespaces"} : InformerSynced(informer)
    \/ /\ "namespaces" \in main.running
       /\ \/ \E name \in Namespaces : onAddNamespace(name)
          \/ \E name \in Namespaces : onDelNamespace(name)
    \/ /\ "secrets" \in main.running
       /\ \/ \E ns \in Namespaces : onAddSecret(ns)
          \/ RangeNext
          \/ RangeEnd
          \/ Return
          \/ SecretCopyGet
          \/ SecretCopyWrite

SpecMain == InitMain /\ [][NextMain]_vars

(***************************************************************************)
(* The closed loop: the cluster is left alone, every object the engine      *)
(* writes comes back to it as an Added event                                *)
(***************************************************************************)
\* A labelled secret a user holds in team-a.
SourceOther ==
    Secret("team-a", {CopierLabel},
           Annotations([k \in {LastAppliedAnnotation} |-> "cfg"]), DataUserB)

\* What the cluster may hold when the process starts.
LoopStores ==
    {[ns \in Namespaces |-> IF ns = "default" THEN StoreAssign(d) ELSE t] :
        d \in UserSecrets("default"),
        t \in {NoSecret, StoreAssign(Foreign("team-a")), StoreAssign(SourceOther)}}

\* Create calls are counted; sources are the namespaces whose secret is
\* eligible at the start.
HistLoop(st) ==
    [HistOff EXCEPT !.counting = TRUE,
                    !.sources = {ns \in Namespaces : Eligible(Decode(st[ns]))}]

InitLoop ==
    /\ ProcessInit
    /\ store \in LoopStores
    /\ ApartInit
    /\ hist = HistLoop(store)

\* The handlers of the secrets informer.
SecretsContext ==
    \/ \E ns \in Namespaces : onAddSecret(ns)
    \/ RangeNext
    \/ RangeEnd
    \/ Return
    \/ SecretCopyGet
    \/ SecretCopyWrite

NextLoop ==
    \/ \E name \in Namespaces : onAddNamespace(name)
    \/ SecretsContext

\* The informer delivers what it holds and a handler that runs goes on to its
\* return: every store call comes back.
SpecLoop == InitLoop /\ [][NextLoop]_vars /\ WF_vars(SecretsContext)

(***************************************************************************)
(* Properties                                                               *)
(***************************************************************************)
\* An object the engine wrote: it carries secret-copier/origin = clone.
IsReplica(obj) ==
    /\ HasAnnotation(obj.annotations, OriginAnnotation)
    /\ obj.annotations.m[OriginAnnotation] = "clone"

CallsTo(op, ns) == {i \in 1..Len(calls) : calls[i].op = op /\ calls[i].ns = ns}

Mutations(ns) == CallsTo("Create", ns) \cup CallsTo("Update", ns)

\* onAddSecret has run to its end.
PassOver == pc = "return" /\ handler = "onAddSecret"

\* No store call of the handler failed.
NoStoreFailure ==
    \A i \in 1..Len(calls) : calls[i].res \in {"nil", "NotFound"}

\* C1: when onAddSecret has run to its end on an eligible secret, every
\* namespace that was in nslist when it was entered and that the range
\* handed to secretCopy has had exactly one Get and at most one of Create and
\* Update: none of two or more registered namespaces is skipped.
C1_EveryNamespaceAttempted ==
    (PassOver /\ Eligible(observed)) =>
        \A n \in obsNs \cap produced :
            /\ Cardinality(CallsTo("Get", n)) = 1
            /\ Cardinality(Mutations(n)) <= 1

\* C2: while onAddSecret handles a secret that carries the annotation
\* secret-copier/origin, it has made no store call, whatever nslist holds.
C2_CloneNoStoreCalls ==
    (handler = "onAddSecret" /\ Annotated(observed)) => calls = <<>>

\* C2 witness: a labelled secret with the annotation was handled to the end,
\* with a namespace registered and handed to secretCopy.
C2_Witness ==
    /\ PassOver
    /\ Labelled(observed)
    /\ Annotated(observed)
    /\ obsNs \cap produced # {}
    /\ calls = <<>>

\* C3: onAddSecret on a secret without the label secret-copier makes no
\* store call and leaves nslist, secretlist and the store as they are: its
\* entry step goes straight to the return, and no later step of the handler
\* writes secretlist.
C3_UnlabelledNoOp ==
    [][(handler' = "onAddSecret" /\ ~Labelled(observed')) =>
        /\ calls' = <<>>
        /\ pc' = "return"
        /\ secretlist' = secretlist
        /\ (handler = "none" => nslist' = nslist /\ store' = store)]_vars

\* C3 witness: an unlabelled secret was handled while a namespace was
\* registered.
C3_Witness ==
    /\ PassOver
    /\ ~Labelled(observed)
    /\ obsNs # {}
    /\ secretlist = EmptyRegistry

\* C4: within one observation each namespace gets at most one of Create and
\* Update; a Create directly follows a Get of that namespace that reported
\* not-found, an Update directly follows a Get that returned an object.
C4_OneMutationAfterGet ==
    handler = "onAddSecret" =>
        /\ \A n \in Namespaces : Cardinality(Mutations(n)) <= 1
        /\ \A i \in 1..Len(calls) :
            /\ calls[i].op = "Create" =>
                /\ i > 1
                /\ calls[i-1].op = "Get"
                /\ calls[i-1].ns = calls[i].ns
                /\ calls[i-1].res = "NotFound"
            /\ calls[i].op = "Update" =>
                /\ i > 1
                /\ calls[i-1].op = "Get"
                /\ calls[i-1].ns = calls[i].ns
                /\ calls[i-1].res = "nil"

\* C5: an observation of an eligible secret never ends in a panic, and when
\* it has run to its end, every namespace whose Get reported not-found has
\* had exactly one Create; so also for a secret without annotations.
C5_AbsentTargetCreated ==
    (handler = "onAddSecret" /\ Eligible(observed)) =>
        /\ pc # "panicked"
        /\ PassOver =>
            \A i \in 1..Len(calls) :
                (calls[i].op = "Get" /\ calls[i].res = "NotFound") =>
                    Cardinality(CallsTo("Create", calls[i].ns)) = 1

\* C6: an observation that finds, in a target namespace, the replica exactly
\* as an earlier observation of the same unchanged secret created it, issues
\* neither Create nor Update for that namespace: the Get is the last call for
\* it.  (The first observation creates: a Get that reports not-found is
\* followed by a Create.)
C6_SecondObservationNoOp ==
    (handler = "onAddSecret" /\ Eligible(observed)) =>
        \A i \in 1..Len(calls) :
            /\ (calls[i].op = "Get" /\ calls[i].res = "nil"
                    /\ calls[i].obj = StoreAssign(BuildReplica(observed, calls[i].ns)))
                => (pc \in {"range", "return"} => Mutations(calls[i].ns) = {})
            /\ (calls[i].op = "Get" /\ calls[i].res = "NotFound")
                => (pc \in {"range", "return"} => CallsTo("Create", calls[i].ns) # {})

\* C7: when an observation of an eligible secret has run to its end without
\* a failed store call, every registered namespace handed to secretCopy
\* whose Get returned a replica with another payload has had exactly one
\* Update carrying the source's payload and no Create, and a replica stored
\* there has the source's payload.
C7_StaleReplicaUpdated ==
    (PassOver /\ Eligible(observed) /\ NoStoreFailure) =>
        \A n \in obsNs \cap produced :
            /\ \A i \in CallsTo("Get", n) :
                (calls[i].res = "nil" /\ IsReplica(calls[i].obj)
                        /\ calls[i].obj.data # observed.data) =>
                    /\ CallsTo("Create", n) = {}
                    /\ Cardinality(CallsTo("Update", n)) = 1
                    /\ \A j \in CallsTo("Update", n) : calls[j].obj.data = observed.data
            /\ IsReplica(store[n]) => store[n].data = observed.data

\* C8: every object secretCopy passes to Create or Update has the observed
\* secret's name, labels and data, the target namespace, empty
\* resourceVersion, selfLink and UID, no last-applied annotation, and the
\* annotation secret-copier/origin = clone.
C8_WellFormedReplica ==
    \A i \in 1..Len(calls) :
        calls[i].op \in {"Create", "Update"} =>
            /\ calls[i].obj.name = observed.name
            /\ calls[i].obj.namespace = calls[i].ns
            /\ calls[i].obj.labels = observed.labels
            /\ calls[i].obj.data = observed.data
            /\ calls[i].obj.resourceVersion = ""
            /\ calls[i].obj.selfLink = ""
            /\ calls[i].obj.uid = ""
            /\ ~HasAnnotation(calls[i].obj.annotations, LastAppliedAnnotation)
            /\ HasAnnotation(calls[i].obj.annotations, OriginAnnotation)
            /\ calls[i].obj.annotations.m[OriginAnnotation] = "clone"

\* C8 witness: a secret that carried the last-applied annotation was written
\* to a namespace other than its own by a Create that succeeded.
C8_Witness ==
    \E i \in 1..Len(calls) :
        /\ calls[i].op = "Create"
        /\ calls[i].res = "nil"
        /\ calls[i].ns # observed.namespace
        /\ HasAnnotation(observed.annotations, LastAppliedAnnotation)
        /\ store[calls[i].ns] = StoreAssign(calls[i].obj)

\* C9: secretsDataEqual returns true for two maps with the same keys and
\* values, in whatever orders the two ranges produce the keys.
C9_OrderInsensitive ==
    (fp.pc = "done" /\ fp.one = fp.two) => fp.res

\* C10: secretsDataEqual returns false for two maps that differ in a key or
\* in a value, in whatever orders the two ranges produce the keys.
C10_DistinguishesPayloads ==
    (fp.pc = "done" /\ fp.one # fp.two) => ~fp.res

\* C11: a Get that failed with an error other than not-found abandons the
\* attempt: the handler issues neither Create nor Update for that namespace.
C11_GetErrorAbandons ==
    handler = "onAddSecret" =>
        \A i \in 1..Len(calls) :
            (calls[i].op = "Get" /\ calls[i].res = "Error") =>
                Mutations(calls[i].ns) = {}

\* C15: replication leaves the observed secret as it was delivered: while
\* onAddSecret runs, the object it holds has the labels, annotations and data
\* of the observation; it has not gained secret-copier/origin nor lost the
\* last-applied annotation.
C15_SourceUntouched ==
    handler = "onAddSecret" =>
        /\ secret.labels = observed.labels
        /\ secret.annotations = observed.annotations
        /\ secret.data = observed.data

\* C13: nslist.m holds exactly the names whose latest namespace event was an
\* add.  Adding a name makes it a key and adding it again changes nothing;
\* deleting removes it and deleting again changes nothing; a name added and
\* then deleted is not a key.
C13_NamespaceRegistry ==
    /\ nslist = nsAdded
    /\ \A name \in Namespaces :
        /\ name \in KeysInsert(nslist, name)
        /\ KeysInsert(KeysInsert(nslist, name), name) = KeysInsert(nslist, name)
        /\ name \notin KeysDelete(nslist, name)
        /\ KeysDelete(KeysDelete(nslist, name), name) = KeysDelete(nslist, name)
        /\ name \notin KeysDelete(KeysInsert(nslist, name), name)
        /\ \A other \in Namespaces \ {name} :
            /\ other \in KeysInsert(nslist, name) <=> other \in nslist
            /\ other \in KeysDelete(nslist, name) <=> other \in nslist

\* C13 witness: a namespace that was registered when onAddSecret was entered
\* has been deleted since, and another one is still registered.
C13_Witness ==
    /\ handler = "onAddSecret"
    /\ obsNs = Namespaces
    /\ nslist = {"team-a"}
    /\ nsAdded = {"team-a"}

\* C19: a namespace event leaves secretlist, the store and the calls of the
\* secrets context as they are; onDelSecret makes no store call and leaves
\* nslist and the store as they are.  The engine writes the store only inside
\* secretCopy, in the namespace the range of the running observation handed
\* to it: a namespace added after an observation gets nothing until a secret
\* is observed again, and deleting a source leaves its replicas.
C19_OtherEventsNoStoreCalls ==
    [][restarts' = restarts =>
        /\ nslist' # nslist =>
            /\ secretlist' = secretlist
            /\ store' = store
            /\ calls' = calls
            /\ known' = known
        /\ handler' = "onDelSecret" =>
            /\ calls' = <<>>
            /\ handler = "none" => (nslist' = nslist /\ store' = store)
        /\ (store' # store /\ userOps' = userOps) =>
            /\ handler = "onAddSecret"
            /\ pc = "got"
            /\ target \in produced
            /\ \A n \in Namespaces \ {target} : store'[n] = store[n]]_vars

\* C19 witness: onDelSecret has handled the deletion of the source while its
\* replica is still stored in team-a, and the namespace default is
\* registered without a replica.
C19_Witness ==
    /\ handler = "onDelSecret"
    /\ pc = "return"
    /\ store["default"] = NoSecret
    /\ IsReplica(store["team-a"])
    /\ nslist = Namespaces
    /\ secretlist = EmptyRegistry

\* C12: nslist.m is never written while it is read: no state has the
\* namespaces context inside its write of the map while onAddSecret is
\* inside its range over the map.
C12_NoWriteDuringRange ==
    ~(nsPc # NsIdle /\ Ranging)

\* C14: after any sequence of secretListAdd and secretListDel calls no
\* namespace of secretlist.m maps to an empty set; the pair just added is
\* there, the pair just deleted is not; and from every such map
\* secretListAdd(ns, name) makes the pair present, creating the namespace's
\* set when it is missing, secretListDel(ns, name) makes it absent, also
\* when the namespace or the name was never there, and drops a namespace
\* whose set has become empty; both leave every other pair as it was.
C14_SecretRegistry ==
    /\ \A k \in DOMAIN secretlist : secretlist[k] # {}
    /\ regLast.op = "add" => RegHas(secretlist, regLast.ns, regLast.name)
    /\ regLast.op = "del" => ~RegHas(secretlist, regLast.ns, regLast.name)
    /\ \A ns \in Namespaces, name \in RegNames :
        LET added == secretListAdd(secretlist, ns, name)
            deleted == secretListDel(secretlist, ns, name)
        IN  /\ RegHas(added, ns, name)
            /\ ~RegHas(deleted, ns, name)
            /\ \A k \in DOMAIN added : added[k] # {}
            /\ \A k \in DOMAIN deleted : deleted[k] # {}
            /\ ns \in DOMAIN deleted <=>
                    (ns \in DOMAIN secretlist /\ secretlist[ns] \ {name} # {})
            /\ \A k \in Namespaces, n \in RegNames :
                    <<k, n>> # <<ns, name>> =>
                        /\ RegHas(added, k, n) <=> RegHas(secretlist, k, n)
                        /\ RegHas(deleted, k, n) <=> RegHas(secretlist, k, n)

\* C14 witness: secretListDel has removed the last name of a namespace, whose
\* entry is gone, while another namespace still has two names.
C14_Witness ==
    /\ regLast.op = "del"
    /\ regLast.had
    /\ regLast.ns \notin DOMAIN secretlist
    /\ \E k \in DOMAIN secretlist : Cardinality(secretlist[k]) = 2

\* C16: a Create or Update that failed is followed by no further store call
\* for that namespace in the same observation; and when the same secret is
\* observed again while a namespace whose Create or Update failed is still
\* registered and handed to secretCopy, the observation issues a Get for it
\* and then the Create (Get reported not-found) or the Update (Get returned
\* another payload) that is still needed.
C16_NoRetryThenRecovered ==
    /\ handler = "onAddSecret" =>
        \A i \in 1..Len(calls) :
            (calls[i].op \in {"Create", "Update"} /\ calls[i].res # "nil") =>
                \A j \in (i+1)..Len(calls) : calls[j].ns # calls[i].ns
    /\ (PassOver /\ Eligible(observed)) =>
        \A n \in hist.failed \cap obsNs \cap produced \cap nslist :
            \E i \in CallsTo("Get", n) :
                /\ calls[i].res = "NotFound" => CallsTo("Create", n) # {}
                /\ (calls[i].res = "nil" /\ calls[i].obj.data # observed.data) =>
                        CallsTo("Update", n) # {}

\* C17: secretlist.m holds a namespace's secret exactly when the latest
\* event for it was an Added of a secret with the label secret-copier and
\* without the annotation secret-copier/origin; a secret that carries the
\* annotation and is observed as Added is not recorded.
C17_RegistryTracksEligible ==
    /\ DOMAIN secretlist = hist.eligible
    /\ \A ns \in DOMAIN secretlist : secretlist[ns] = {SecretName}
    /\ (handler = "onAddSecret" /\ Annotated(observed)) =>
            observed.namespace \notin DOMAIN secretlist

\* C18: when an observation of an eligible secret has run to its end, the
\* namespaces that received a Get are exactly what nslist.m held at one
\* instant between the entry of onAddSecret and the end of its range.
C18_SnapshotOfRegistry ==
    (PassOver /\ Eligible(observed)) =>
        {n \in Namespaces : CallsTo("Get", n) # {}} \in hist.seen

\* C20: main is in a blocking receive on stopper only when both
\* WaitForCacheSync barriers, of the secrets and of the namespaces informer,
\* have been checked and have succeeded.
C20_BothBarriersBeforeWait ==
    main.pc \in {"recv1", "recv2"} => main.checked = {"secrets", "namespaces"}

\* C21: when secretCopy targets the observed secret's own namespace and its
\* Get returns the source itself, the observation issues neither Create nor
\* Update for that namespace, and the stored source is not replaced by a
\* replica carrying secret-copier/origin = clone.
C21_SelfReplicationHarmless ==
    (handler = "onAddSecret" /\ Eligible(observed)) =>
        \A i \in CallsTo("Get", observed.namespace) :
            (calls[i].res = "nil" /\ calls[i].obj = observed) =>
                /\ Mutations(observed.namespace) = {}
                /\ ~IsReplica(store[observed.namespace])

\* C23: every Update secretCopy issues directly follows a Get of the same
\* namespace that returned an object carrying secret-copier/origin: an
\* object of the same name that the engine did not write is not overwritten.
C23_UpdatesOnlyReplicas ==
    handler = "onAddSecret" =>
        \A i \in 1..Len(calls) :
            calls[i].op = "Update" =>
                /\ i > 1
                /\ calls[i-1].op = "Get"
                /\ calls[i-1].ns = calls[i].ns
                /\ Annotated(calls[i-1].obj)

\* Every stored secret has been handed to onAddSecret and no handler of the
\* secrets informer runs or is left to run: no store call can follow.
Quiescent ==
    /\ pc \in {"idle", "panicked"}
    /\ pc = "idle" => \A ns \in Namespaces : store[ns] # NoSecret => ns \in known

\* C22: in the closed loop the Create calls made so far never exceed the
\* number of source secrets times the number of registered namespaces; an
\* observation of a secret that is no source (a replica that came back, or
\* any other secret of a namespace without a source) issues neither Create
\* nor Update; and the engine comes to rest: from some point on no handler of
\* the secrets informer runs and nothing is left to hand over.
C22_ClosedLoopQuiescence ==
    /\ [](hist.creates <= Cardinality(hist.sources) * Cardinality(nslist))
    /\ []((handler = "onAddSecret" /\ observed.namespace \notin hist.sources) =>
            \A n \in Namespaces : Mutations(n) = {})
    /\ <>[]Quiescent

\* C22 witness: a replica the engine created has come back as an Added event
\* and was handled to the end, with a namespace handed to secretCopy, without
\* a store call.
C22_Witness ==
    /\ PassOver
    /\ IsReplica(observed)
    /\ observed.namespace \notin hist.sources
    /\ hist.creates >= 1
    /\ obsNs \cap produced # {}
    /\ calls = <<>>

====
